---------------------------- MODULE Spec2Model ----------------------------
(***************************************************************************)
(* A model of leonhfr/torrent-client: the message codec (package message), *)
(* the peer session (package client) and the swarm scheduler with its      *)
(* piece downloader (package p2p).                                         *)
(*                                                                         *)
(* Byte strings are kept run-length encoded (a sequence of runs            *)
(* [n |-> count, v |-> byte]) so that 16 KiB blocks stay small values; the *)
(* encoding is exact: every operator below computes on the bytes.  Go's    *)
(* int is taken to be 64 bits wide (no overflow on the offsets used).      *)
(***************************************************************************)
EXTENDS Integers, Sequences, FiniteSets, TLC

VARIABLES
    t,          \* the Torrent: PieceHashes, PieceLength, Length, Peers
    workQueue,  \* buffered channel of *pieceWork: [q, cap, closed]
    out,        \* Download's frame: buf, donePieces, returned; the copies made
    wpc,        \* per worker: the place its goroutine is at
    cl,         \* per worker: its *client.Client (Choked, Bitfield, conn)
    pw,         \* per worker: the *pieceWork it holds
    state,      \* per worker: the pieceProgress of its attempt
    peer,       \* per worker: the remote peer at the other end of its conn
    wire,       \* per worker: what it wrote to its conn and how that went
    call        \* one call of a pure function: its input and its result

vars == <<t, workQueue, out, wpc, cl, pw, state, peer, wire, call>>

swarmVars == <<t, workQueue, out, wpc, cl, pw, state, peer, wire>>

None == [none |-> TRUE]

\* a *client.Client whose conn has been closed (the deferred c.Conn.Close())
Closed == [closed |-> TRUE]

-----------------------------------------------------------------------------
(* Bounds of the model.                                                    *)

\* most pieces of a manifest
MaxPieces == 2
\* most peers of a manifest
MaxPeers == 2
\* most blocks of a piece in the swarm specification
MaxBlocks == 1
\* blocks of the piece in the single-attempt specification
AttemptBlocks == 6
\* longest buffer handed to ParsePiece in the codec specification
MaxBufLen == 3

-----------------------------------------------------------------------------
(* Program constants.                                                      *)

MaxBlockSize == 16384
MaxBacklog == 5

MsgChoke == 0
MsgUnchoke == 1
MsgInterested == 2
MsgNotInterested == 3
MsgHave == 4
MsgBitfield == 5
MsgRequest == 6
MsgPiece == 7
MsgCancel == 8

-----------------------------------------------------------------------------
(* []byte, run-length encoded.                                             *)

Min(a, b) == IF a < b THEN a ELSE b

RECURSIVE BLen(_)
\* len(b)
BLen(b) == IF b = <<>> THEN 0 ELSE b[1].n + BLen(Tail(b))

\* a run put in front of a canonical encoding
BCons(x, r) ==
    IF x.n = 0 THEN r
    ELSE IF r # <<>> /\ r[1].v = x.v
         THEN <<[n |-> x.n + r[1].n, v |-> x.v]>> \o Tail(r)
         ELSE <<x>> \o r

RECURSIVE BNorm(_)
\* the canonical encoding: no empty run, no two neighbours of one value (the
\* rest is bound once, as a value, and a run is put in front of it)
BNorm(b) ==
    IF b = <<>> THEN <<>>
    ELSE CHOOSE z \in {BCons(b[1], r) : r \in {BNorm(Tail(b))}} : TRUE

RECURSIVE BTake(_, _)
\* b[:k]
BTake(b, k) ==
    IF k <= 0 \/ b = <<>> THEN <<>>
    ELSE IF b[1].n >= k THEN <<[n |-> k, v |-> b[1].v]>>
    ELSE <<b[1]>> \o BTake(Tail(b), k - b[1].n)

RECURSIVE BDrop(_, _)
\* b[k:]
BDrop(b, k) ==
    IF k <= 0 \/ b = <<>> THEN b
    ELSE IF b[1].n > k THEN <<[n |-> b[1].n - k, v |-> b[1].v]>> \o Tail(b)
    ELSE BDrop(Tail(b), k - b[1].n)

\* b[lo:hi]
BSlice(b, lo, hi) == CHOOSE z \in {BTake(d, hi - lo) : d \in {BDrop(b, lo)}} : TRUE

\* append(a, b...)
BCat(a, b) == CHOOSE z \in {BNorm(x) : x \in {a \o b}} : TRUE

\* n bytes of value v
BRun(n, v) == IF n <= 0 THEN <<>> ELSE <<[n |-> n, v |-> v]>>

\* make([]byte, n)
BZeros(n) == BRun(n, 0)

\* b[i], 0-based
BAt(b, i) == BDrop(b, i)[1].v

RECURSIVE BLit(_)
\* the byte string of a plain sequence of bytes
BLit(s) == IF s = <<>> THEN <<>> ELSE BCat(BRun(1, s[1]), BLit(Tail(s)))

\* the plain sequence of bytes of a (short) byte string
BExpand(b) == [i \in 1..BLen(b) |-> BAt(b, i - 1)]

\* copy(dst, src): min(len(dst), len(src)) bytes of src over the head of dst
BCopy(dst, src) ==
    CHOOSE z \in {BCat(BTake(s, m), BDrop(d, m)) :
                    d \in {dst}, s \in {src}, m \in {Min(BLen(dst), BLen(src))}} : TRUE

\* copy(buf[begin:], data), as the new value of buf
BCopyAt(buf, begin, data) == BCat(BTake(buf, begin), BCopy(BDrop(buf, begin), data))

\* binary.BigEndian.Uint32(b) of a 4-byte string (the first byte stays below
\* 128 in this model, so the value fits the checker's integers)
Uint32(b) ==
    BAt(b, 0) * 16777216 + BAt(b, 1) * 65536 + BAt(b, 2) * 256 + BAt(b, 3)

\* binary.BigEndian.PutUint32(_, uint32(x)), as the 4 bytes written; the
\* values converted here lie in 0..2^31-1, where uint32(x) is x
PutUint32(x) ==
    BLit(<<(x \div 16777216) % 256, (x \div 65536) % 256,
           (x \div 256) % 256, x % 256>>)

-----------------------------------------------------------------------------
(* package message                                                         *)

\* the nil *Message: a keep-alive
NilMsg == [nil |-> TRUE]

Message(id, payload) == [ID |-> id, Payload |-> payload]

NewRequest(index, begin, length) ==
    Message(MsgRequest,
            BCat(PutUint32(index), BCat(PutUint32(begin), PutUint32(length))))

NewHave(index) == Message(MsgHave, PutUint32(index))

\* ParsePiece with the bound check on begin off by one
ParsePieceLaxBegin(msg, expectedIndex, buf) ==
    IF msg.ID # MsgPiece THEN [n |-> 0, err |-> TRUE, buf |-> buf]
    ELSE IF BLen(msg.Payload) < 8 THEN [n |-> 0, err |-> TRUE, buf |-> buf]
    ELSE LET index == Uint32(BSlice(msg.Payload, 0, 4))
             begin == Uint32(BSlice(msg.Payload, 4, 8))
             data  == BDrop(msg.Payload, 8)
         IN  IF index # expectedIndex THEN [n |-> 0, err |-> TRUE, buf |-> buf]
             ELSE IF begin > BLen(buf) THEN [n |-> 0, err |-> TRUE, buf |-> buf]
             ELSE IF begin + BLen(data) > BLen(buf)
                  THEN [n |-> 0, err |-> TRUE, buf |-> buf]
             ELSE [n |-> BLen(data), err |-> FALSE,
                   buf |-> BCopyAt(buf, begin, data)]

\* msg.ParsePiece(expectedIndex, buf): (n, err) and buf as it is left
ParsePiece(msg, expectedIndex, buf) ==
    IF msg.ID # MsgPiece THEN [n |-> 0, err |-> TRUE, buf |-> buf]
    ELSE IF BLen(msg.Payload) < 8 THEN [n |-> 0, err |-> TRUE, buf |-> buf]
    ELSE LET index == Uint32(BSlice(msg.Payload, 0, 4))
             begin == Uint32(BSlice(msg.Payload, 4, 8))
             data  == BDrop(msg.Payload, 8)
         IN  IF index # expectedIndex THEN [n |-> 0, err |-> TRUE, buf |-> buf]
             ELSE IF begin >= BLen(buf) THEN [n |-> 0, err |-> TRUE, buf |-> buf]
             ELSE IF begin + BLen(data) > BLen(buf)
                  THEN [n |-> 0, err |-> TRUE, buf |-> buf]
             ELSE [n |-> BLen(data), err |-> FALSE,
                   buf |-> BCopyAt(buf, begin, data)]

\* msg.ParseHave(): (index, err)
ParseHave(msg) ==
    IF msg.ID # MsgHave THEN [index |-> 0, err |-> TRUE]
    ELSE IF BLen(msg.Payload) # 4 THEN [index |-> 0, err |-> TRUE]
    ELSE [index |-> Uint32(msg.Payload), err |-> FALSE]

\* Serialize with the length prefix counting the payload only
SerializeLengthOfPayload(msg) ==
    IF msg = NilMsg THEN BZeros(4)
    ELSE BCat(PutUint32(BLen(msg.Payload)),
              BCat(BRun(1, msg.ID % 256), msg.Payload))

\* msg.Serialize(): <length prefix><message ID><payload>; four zero bytes for
\* the nil message
Serialize(msg) ==
    IF msg = NilMsg THEN BZeros(4)
    ELSE LET length == BLen(msg.Payload) + 1
         IN  BCat(PutUint32(length),
                  BCat(BRun(1, msg.ID % 256), msg.Payload))

\* io.ReadFull(r, make([]byte, n)): the bytes read, what is left of the
\* stream, and an error when the stream ends before n bytes
ReadFull(r, n) ==
    IF BLen(r) < n THEN [buf |-> BTake(r, n), rest |-> <<>>, err |-> TRUE]
    ELSE [buf |-> BTake(r, n), rest |-> BDrop(r, n), err |-> FALSE]

\* message.Read(r): (msg, err) and the stream as it is left
Read(r) ==
    LET lengthBuf == ReadFull(r, 4)
    IN  IF lengthBuf.err THEN [msg |-> NilMsg, err |-> TRUE, rest |-> lengthBuf.rest]
        ELSE LET length == Uint32(lengthBuf.buf)
             IN  IF length = 0
                 THEN [msg |-> NilMsg, err |-> FALSE, rest |-> lengthBuf.rest]
                 ELSE LET messageBuf == ReadFull(lengthBuf.rest, length)
                      IN  IF messageBuf.err
                          THEN [msg |-> NilMsg, err |-> TRUE, rest |-> messageBuf.rest]
                          ELSE [msg |-> Message(BAt(messageBuf.buf, 0),
                                                BDrop(messageBuf.buf, 1)),
                                err |-> FALSE, rest |-> messageBuf.rest]

-----------------------------------------------------------------------------
(* package bitfield (get/set of a bit, most significant bit first)         *)

\* bit k (0 = least significant) of byte x
Bit(x, k) == (x \div (2 ^ k)) % 2

\* bf.HasPiece(index)
HasPiece(bf, index) ==
    LET byteIndex == index \div 8
        offset    == index % 8
    IN  IF byteIndex < 0 \/ byteIndex >= BLen(bf) THEN FALSE
        ELSE Bit(BAt(bf, byteIndex), 7 - offset) # 0

\* bf.SetPiece(index), as the new value of bf
SetPiece(bf, index) ==
    LET byteIndex == index \div 8
        offset    == index % 8
    IN  IF byteIndex < 0 \/ byteIndex >= BLen(bf) THEN bf
        ELSE IF Bit(BAt(bf, byteIndex), 7 - offset) # 0 THEN bf
        ELSE BCopyAt(bf, byteIndex,
                     BRun(1, BAt(bf, byteIndex) + 2 ^ (7 - offset)))

-----------------------------------------------------------------------------
(* package p2p: the Torrent and its pieces                                 *)

\* sha1.Sum(b): taken collision-free, a digest names the bytes it is of
sha1(b) == [sha1 |-> b]

\* len(t.PieceHashes)
NumPieces == Len(t.PieceHashes)

Pieces == 0..(NumPieces - 1)

Workers == 1..Len(t.Peers)

\* calcultateBoundsForPiece without the piece's offset
calcultateBoundsFromZero(index) ==
    LET begin == 0
        end   == begin + t.PieceLength
    IN  [begin |-> begin, end |-> IF end > t.Length THEN t.Length ELSE end]

\* calcultateBoundsForPiece counting the pieces from the end of the file
calcultateBoundsFromEnd(index) ==
    LET begin == (NumPieces - 1 - index) * t.PieceLength
        end   == begin + t.PieceLength
    IN  [begin |-> begin, end |-> IF end > t.Length THEN t.Length ELSE end]

\* t.calcultateBoundsForPiece(index)
calcultateBoundsForPiece(index) ==
    LET begin == index * t.PieceLength
        end   == begin + t.PieceLength
    IN  [begin |-> begin, end |-> IF end > t.Length THEN t.Length ELSE end]

\* t.calculatePieceSize(index)
calculatePieceSize(index) ==
    calcultateBoundsForPiece(index).end - calcultateBoundsForPiece(index).begin

\* checkIntegrity comparing the lengths only
checkIntegrityLengthOnly(work, buf) == BLen(buf) = work.length

\* checkIntegrity(pw, buf) returns nil
checkIntegrity(work, buf) == sha1(buf) = work.hash

\* blockSize without the shorter last block
blockSizeFull(length, requested) == MaxBlockSize

\* the size of the block a Request at offset requested asks for
blockSize(length, requested) ==
    IF length - requested < MaxBlockSize THEN length - requested ELSE MaxBlockSize

-----------------------------------------------------------------------------
(* The remote peers: what a worker may find at the other end.              *)

\* the byte every byte of piece index of the file is
FileByte(index) == index + 1

\* a byte no piece of the file holds: the largest one
JunkByte == 2 ^ 8 - 1

\* the bitfield payload advertising exactly the pieces of S (S within 0..7)
RECURSIVE BitsOf(_)
BitsOf(S) ==
    IF S = {} THEN 0
    ELSE LET i == CHOOSE x \in S : TRUE IN 2 ^ (7 - i) + BitsOf(S \ {i})

BitfieldOf(S) == BRun(1, BitsOf(S))

\* a Piece message
PieceMsg(index, begin, data) ==
    Message(MsgPiece, BCat(PutUint32(index), BCat(PutUint32(begin), data)))

\* the offsets at which the blocks of a piece of this length start
BlockStarts(length) == {k * MaxBlockSize : k \in 0..((length - 1) \div MaxBlockSize)}

\* what a responsive peer sends next: Unchoke first, then the block asked for
\* longest ago, with the bytes of the file
ResponsiveInbound(w) ==
    IF cl[w].Choked THEN {[err |-> FALSE, msg |-> Message(MsgUnchoke, <<>>)]}
    ELSE {[err |-> FALSE,
           msg |-> PieceMsg(pw[w].index, b,
                            BRun(blockSize(pw[w].length, b), FileByte(pw[w].index)))] :
            b \in {x \in BlockStarts(pw[w].length) :
                      x = state[w].downloaded /\ x < state[w].requested}}

\* a read that fails: an I/O error, or the deadline of the attempt
ReadError == [err |-> TRUE, msg |-> NilMsg]

\* what any other peer may send next, or a failed read (I/O error, deadline):
\* a keep-alive, each message kind with an empty payload, a Have for each
\* piece and for a bit past the bitfield, each block of the piece with the
\* bytes of the file (asked for or not, any number of times), the first block
\* with other bytes, and Piece messages ParsePiece refuses
ArbitraryInbound(w) ==
    {ReadError, [err |-> FALSE, msg |-> NilMsg]}
    \cup {[err |-> FALSE, msg |-> Message(id, <<>>)] :
            id \in {MsgChoke, MsgUnchoke, MsgInterested, MsgHave, MsgPiece}}
    \cup {[err |-> FALSE, msg |-> NewHave(i)] : i \in Pieces \cup {8 * BLen(cl[w].Bitfield)}}
    \cup {[err |-> FALSE,
           msg |-> PieceMsg(pw[w].index, b,
                            BRun(blockSize(pw[w].length, b), FileByte(pw[w].index)))] :
            b \in BlockStarts(pw[w].length)}
    \cup {[err |-> FALSE, msg |-> PieceMsg(pw[w].index, 0,
                                          BRun(blockSize(pw[w].length, 0), JunkByte))],
          [err |-> FALSE, msg |-> PieceMsg(pw[w].index + 1, 0, BRun(1, JunkByte))],
          [err |-> FALSE, msg |-> PieceMsg(pw[w].index, pw[w].length, <<>>)],
          [err |-> FALSE, msg |-> PieceMsg(pw[w].index, 0, BRun(pw[w].length + 1, JunkByte))]}

\* what a peer sends next that discards, when it chokes, the Requests it has
\* not answered: a Choke or an Unchoke, a block it still holds a Request for
\* (in any order), with the bytes of the file; or the read fails (I/O error,
\* deadline)
DiscardingInbound(w) ==
    {ReadError,
     [err |-> FALSE,
      msg |-> Message(IF cl[w].Choked THEN MsgUnchoke ELSE MsgChoke, <<>>)]}
    \cup {[err |-> FALSE,
           msg |-> PieceMsg(pw[w].index, b,
                            BRun(blockSize(pw[w].length, b), FileByte(pw[w].index)))] :
            b \in wire[w].open \ wire[w].dropped}

Inbound(w) ==
    IF peer[w].responsive THEN ResponsiveInbound(w)
    ELSE IF peer[w].discards THEN DiscardingInbound(w)
    ELSE ArbitraryInbound(w)

\* how a write to the conn may go: ok (TRUE) or an error
WriteOutcomes(w) == IF peer[w].responsive THEN {TRUE} ELSE {TRUE, FALSE}

-----------------------------------------------------------------------------
(* package client: opening a session                                       *)

\* what a responsive peer answers to dial, handshake and the first read
GoodReply(w) ==
    [dial  |-> TRUE,
     hs    |-> [err |-> FALSE, lengthPstr |-> 19, InfoHash |-> t.InfoHash],
     first |-> [err |-> FALSE, msg |-> Message(MsgBitfield, peer[w].bf)]]

\* what any other peer may answer
Replies(w) ==
    IF peer[w].responsive THEN {GoodReply(w)}
    ELSE {GoodReply(w),
          [GoodReply(w) EXCEPT !.dial = FALSE],
          [GoodReply(w) EXCEPT !.hs.err = TRUE],
          [GoodReply(w) EXCEPT !.hs.lengthPstr = 0],
          [GoodReply(w) EXCEPT !.hs.InfoHash = t.InfoHash + 1],
          [GoodReply(w) EXCEPT !.first.err = TRUE],
          [GoodReply(w) EXCEPT !.first.msg = NilMsg],
          [GoodReply(w) EXCEPT !.first.msg = Message(MsgUnchoke, <<>>)]}

\* handshake.Read(conn) returns an error
handshakeReadFails(hs) == hs.err \/ hs.lengthPstr = 0

\* completeHandshake(conn, infoHash, peerID) returns an error
completeHandshakeFails(hs) ==
    handshakeReadFails(hs) \/ hs.InfoHash # t.InfoHash

\* receiveBitfield(conn) returns an error
receiveBitfieldFails(first) ==
    first.err \/ first.msg = NilMsg \/ first.msg.ID # MsgBitfield

\* New without the test of the first message's id
NewAnyFirstMessage(reply) ==
    IF ~reply.dial THEN None
    ELSE IF completeHandshakeFails(reply.hs) THEN None
    ELSE IF reply.first.err \/ reply.first.msg = NilMsg THEN None
    ELSE [Choked |-> TRUE, Bitfield |-> reply.first.msg.Payload]

\* client.New(peer, peerID, infoHash): the *Client, or None on an error
New(reply) ==
    IF ~reply.dial THEN None
    ELSE IF completeHandshakeFails(reply.hs) THEN None
    ELSE IF receiveBitfieldFails(reply.first) THEN None
    ELSE [Choked |-> TRUE, Bitfield |-> reply.first.msg.Payload]

-----------------------------------------------------------------------------
(* package p2p: the piece downloader                                       *)

\* pieceProgress{index: pw.index, client: c, buf: make([]byte, pw.length)}
NewProgress(work) ==
    [index |-> work.index, buf |-> BZeros(work.length),
     downloaded |-> 0, requested |-> 0, backlog |-> 0]

\* readMessage taking a Cancel for a Choke
readMessageCancelChokes(st, c, in) ==
    IF in.err THEN [state |-> st, cl |-> c, err |-> TRUE]
    ELSE IF in.msg = NilMsg THEN [state |-> st, cl |-> c, err |-> FALSE]
    ELSE IF in.msg.ID = MsgUnchoke
         THEN [state |-> st, cl |-> [c EXCEPT !.Choked = FALSE], err |-> FALSE]
    ELSE IF in.msg.ID = MsgChoke \/ in.msg.ID = MsgCancel
         THEN [state |-> st, cl |-> [c EXCEPT !.Choked = TRUE], err |-> FALSE]
    ELSE IF in.msg.ID = MsgHave
         THEN LET r == ParseHave(in.msg)
              IN  IF r.err THEN [state |-> st, cl |-> c, err |-> TRUE]
                  ELSE [state |-> st,
                        cl |-> [c EXCEPT !.Bitfield = SetPiece(@, r.index)],
                        err |-> FALSE]
    ELSE IF in.msg.ID = MsgPiece
         THEN LET r == ParsePiece(in.msg, st.index, st.buf)
              IN  IF r.err THEN [state |-> [st EXCEPT !.buf = r.buf], cl |-> c, err |-> TRUE]
                  ELSE [state |-> [st EXCEPT !.buf = r.buf,
                                             !.downloaded = @ + r.n,
                                             !.backlog = @ - 1],
                        cl |-> c, err |-> FALSE]
    ELSE [state |-> st, cl |-> c, err |-> FALSE]

\* a Choke that rewinds the progress to the blocks received, so that the
\* unanswered Requests are sent again
progressRewound(st) == [st EXCEPT !.requested = st.downloaded, !.backlog = 0]

\* case message.MsgChoke touches the session only: the progress is as it was
progressAfterChoke(st) == st

\* state.readMessage() on what the conn delivered: the progress and the
\* session as they are left, and whether an error is returned
readMessage(st, c, in) ==
    IF in.err THEN [state |-> st, cl |-> c, err |-> TRUE]
    ELSE IF in.msg = NilMsg THEN [state |-> st, cl |-> c, err |-> FALSE]
    ELSE IF in.msg.ID = MsgUnchoke
         THEN [state |-> st, cl |-> [c EXCEPT !.Choked = FALSE], err |-> FALSE]
    ELSE IF in.msg.ID = MsgChoke
         THEN [state |-> progressAfterChoke(st),
               cl |-> [c EXCEPT !.Choked = TRUE], err |-> FALSE]
    ELSE IF in.msg.ID = MsgHave
         THEN LET r == ParseHave(in.msg)
              IN  IF r.err THEN [state |-> st, cl |-> c, err |-> TRUE]
                  ELSE [state |-> st,
                        cl |-> [c EXCEPT !.Bitfield = SetPiece(@, r.index)],
                        err |-> FALSE]
    ELSE IF in.msg.ID = MsgPiece
         THEN LET r == ParsePiece(in.msg, st.index, st.buf)
              IN  IF r.err THEN [state |-> [st EXCEPT !.buf = r.buf], cl |-> c, err |-> TRUE]
                  ELSE [state |-> [st EXCEPT !.buf = r.buf,
                                             !.downloaded = @ + r.n,
                                             !.backlog = @ - 1],
                        cl |-> c, err |-> FALSE]
    ELSE [state |-> st, cl |-> c, err |-> FALSE]

\* the inner loop of attemptDownloadPiece has a Request to send
canRequest(st, c, work) ==
    /\ ~c.Choked
    /\ st.backlog < MaxBacklog
    /\ st.requested < work.length

\* the begin offset a Piece message names, when it has one
PieceBegin(msg) == Uint32(BSlice(msg.Payload, 4, 8))

\* what is recorded of a worker's conn, at the start of an attempt: the
\* Requests written in the attempt (each with the session's Choked flag when
\* it was written), the begin offsets asked for and not yet answered by a
\* Piece, those of them the peer has discarded on choking, how the Have write
\* went, and why the worker last gave up
NoWire == [sent |-> <<>>, open |-> {}, dropped |-> {}, have |-> "none",
           why |-> "running"]

-----------------------------------------------------------------------------
(* package p2p: the workers (startDownloadWorker, one goroutine per peer)  *)

\* a receive that leaves the item in the channel
afterReceiveKept(q) == q

\* the channel's buffer after pw := <-workQueue took its head
afterReceive(q) == Tail(q)

\* a send that drops the item
afterSendDropped(q, work) == q

\* the channel's buffer after workQueue <- pw
afterSend(q, work) == Append(q, work)

\* SendHave's error checked: a failed write ends the worker
afterSendHaveChecked(ok) == IF ok THEN "publish" ELSE "requeueExit"

\* where the worker goes once c.SendHave(pw.index) returned: its error is
\* dropped, the result is offered either way
afterSendHave(ok) == "publish"

\* the conn a failed client.New leaves behind: none when the dial failed,
\* else one it has closed (conn.Close() before each return of an error)
connAfterFailedNew(reply) == IF reply.dial THEN Closed ELSE None

\* a worker that downloads whatever it receives
afterHasPieceIgnored(has) == "download"

\* where the worker goes with the answer of c.Bitfield.HasPiece(pw.index): on
\* to attemptDownloadPiece, or to putting the piece back
afterHasPiece(has) == IF has THEN "download" ELSE "requeue"

\* an integrity failure that ends the worker
afterIntegrityFailureExit == "requeueExit"

\* where the worker goes when checkIntegrity returned an error: the piece is
\* put back and the loop goes on
afterIntegrityFailure == "requeue"

\* client.New, then SendUnchoke and SendInterested (their errors are dropped);
\* the peer's record keeps what it answered and what was written to it
WorkerStart(w) ==
    /\ wpc[w] = "start"
    /\ \E reply \in Replies(w) :
          LET c == New(reply)
          IN  IF c = None
              THEN /\ wpc' = [wpc EXCEPT ![w] = "exited"]
                   /\ wire' = [wire EXCEPT ![w].why =
                                 IF reply.dial THEN "handshake" ELSE "dial"]
                   /\ cl' = [cl EXCEPT ![w] = connAfterFailedNew(reply)]
                   /\ peer' = [peer EXCEPT ![w].reply = reply]
              ELSE /\ wpc' = [wpc EXCEPT ![w] = "idle"]
                   /\ cl' = [cl EXCEPT ![w] = c]
                   /\ wire' = wire
                   /\ peer' = [peer EXCEPT
                         ![w].reply = reply,
                         ![w].greeted = <<Message(MsgUnchoke, <<>>),
                                          Message(MsgInterested, <<>>)>>]
    /\ UNCHANGED <<t, workQueue, out, pw, state, call>>

\* pw := <-workQueue, the HasPiece test and the start of attemptDownloadPiece
Dequeue(w) ==
    /\ wpc[w] = "idle"
    /\ workQueue.q # <<>>
    /\ LET work == Head(workQueue.q)
       IN  /\ workQueue' = [workQueue EXCEPT !.q = afterReceive(@)]
           /\ pw' = [pw EXCEPT ![w] = work]
           /\ IF afterHasPiece(HasPiece(cl[w].Bitfield, work.index)) = "requeue"
              THEN /\ wpc' = [wpc EXCEPT ![w] = "requeue"]
                   /\ state' = state
                   /\ wire' = wire
              ELSE /\ wpc' = [wpc EXCEPT ![w] = "download"]
                   /\ state' = [state EXCEPT ![w] = NewProgress(work)]
                   /\ wire' = [wire EXCEPT ![w] = NoWire]
    /\ UNCHANGED <<t, out, cl, peer, call>>

\* workQueue <- pw: blocks while the buffer is full, panics on a closed
\* channel; then continue ("requeue") or return ("requeueExit")
Requeue(w) ==
    /\ wpc[w] \in {"requeue", "requeueExit"}
    /\ workQueue.closed \/ Len(workQueue.q) < workQueue.cap
    /\ IF workQueue.closed
       THEN /\ wpc' = [wpc EXCEPT ![w] = "panic"]
            /\ UNCHANGED <<workQueue, pw, cl, wire>>
       ELSE /\ workQueue' = [workQueue EXCEPT !.q = afterSend(@, pw[w])]
            /\ pw' = [pw EXCEPT ![w] = None]
            /\ IF wpc[w] = "requeue"
               THEN /\ wpc' = [wpc EXCEPT ![w] = "idle"]
                    /\ cl' = cl
                    /\ wire' = [wire EXCEPT ![w] = NoWire]
               ELSE /\ wpc' = [wpc EXCEPT ![w] = "exited"]
                    /\ cl' = [cl EXCEPT ![w] = Closed]
                    /\ wire' = [wire EXCEPT ![w].why = "error"]
    /\ UNCHANGED <<t, out, state, peer, call>>

\* one turn of the inner loop of attemptDownloadPiece: c.SendRequest
SendRequest(w) ==
    /\ wpc[w] = "download"
    /\ state[w].downloaded < pw[w].length
    /\ canRequest(state[w], cl[w], pw[w])
    /\ \E ok \in WriteOutcomes(w) :
          LET size == blockSize(pw[w].length, state[w].requested)
          IN  IF ok
              THEN /\ state' = [state EXCEPT ![w].backlog = @ + 1,
                                             ![w].requested = @ + size]
                   /\ wire' = [wire EXCEPT
                         ![w].sent = Append(@, [msg |-> NewRequest(pw[w].index,
                                                       state[w].requested, size),
                                                choked |-> cl[w].Choked]),
                         ![w].open = @ \cup {state[w].requested}]
                   /\ wpc' = wpc
              ELSE /\ wpc' = [wpc EXCEPT ![w] = "requeueExit"]
                   /\ state' = [state EXCEPT ![w] = None]
                   /\ wire' = [wire EXCEPT ![w] = NoWire]
    /\ UNCHANGED <<t, workQueue, out, cl, pw, peer, call>>

\* state.readMessage() once the inner loop has nothing to send, on what the
\* conn delivers
ReadMessageOn(w, in) ==
    /\ wpc[w] = "download"
    /\ state[w].downloaded < pw[w].length
    /\ ~canRequest(state[w], cl[w], pw[w])
    /\ \E r \in {readMessage(state[w], cl[w], in)} :
              /\ cl' = [cl EXCEPT ![w] = r.cl]
              /\ IF r.err
                 THEN /\ wpc' = [wpc EXCEPT ![w] = "requeueExit"]
                      /\ state' = [state EXCEPT ![w] = None]
                      /\ wire' = [wire EXCEPT ![w] = NoWire]
                 ELSE /\ wpc' = wpc
                      /\ state' = [state EXCEPT ![w] = r.state]
                      /\ wire' = [wire EXCEPT
                            ![w].open =
                                IF in.msg # NilMsg /\ in.msg.ID = MsgPiece
                                THEN @ \ {PieceBegin(in.msg)} ELSE @,
                            ![w].dropped =
                                IF /\ peer[w].discards
                                   /\ in.msg # NilMsg
                                   /\ in.msg.ID = MsgChoke
                                THEN @ \cup wire[w].open ELSE @]
    /\ UNCHANGED <<t, workQueue, out, pw, peer, call>>

\* state.readMessage(): the conn delivers one of the things the peer may send
ReadMessage(w) ==
    /\ wpc[w] = "download"
    /\ \E in \in Inbound(w) : ReadMessageOn(w, in)

\* attemptDownloadPiece returns state.buf; checkIntegrity; c.SendHave (its
\* error is dropped); the worker is left offering its result
FinishPiece(w) ==
    /\ wpc[w] = "download"
    /\ state[w].downloaded >= pw[w].length
    /\ IF ~checkIntegrity(pw[w], state[w].buf)
       THEN /\ wpc' = [wpc EXCEPT ![w] = afterIntegrityFailure]
            /\ state' = [state EXCEPT ![w] = None]
            /\ wire' = [wire EXCEPT ![w] = [NoWire EXCEPT !.why = "integrity"]]
       ELSE \E ok \in WriteOutcomes(w) :
              /\ wpc' = [wpc EXCEPT ![w] = afterSendHave(ok)]
              /\ state' = state
              /\ wire' = [wire EXCEPT ![w] =
                            [NoWire EXCEPT !.have = IF ok THEN "ok" ELSE "err"]]
    /\ UNCHANGED <<t, workQueue, out, cl, pw, peer, call>>

\* results <- &pieceResult{pw.index, buf} meets res := <-results: Download
\* copies the piece into its buffer and counts it
Publish(w) ==
    /\ wpc[w] = "publish"
    /\ ~out.returned
    /\ out.donePieces < NumPieces
    /\ LET res   == [index |-> pw[w].index, buf |-> state[w].buf]
           bound == calcultateBoundsForPiece(res.index)
       IN  out' = [out EXCEPT
                     !.buf = BCat(BTake(@, bound.begin),
                                  BCat(BCopy(BSlice(@, bound.begin, bound.end), res.buf),
                                       BDrop(@, bound.end))),
                     !.donePieces = @ + 1,
                     !.writes = Append(@, [index |-> res.index,
                                           begin |-> bound.begin,
                                           end   |-> bound.end])]
    /\ wpc' = [wpc EXCEPT ![w] = "idle"]
    /\ pw' = [pw EXCEPT ![w] = None]
    /\ state' = [state EXCEPT ![w] = None]
    /\ wire' = [wire EXCEPT ![w] = NoWire]
    /\ UNCHANGED <<t, workQueue, cl, peer, call>>

\* the range over workQueue ends: the channel is closed and drained
WorkerExit(w) ==
    /\ wpc[w] = "idle"
    /\ workQueue.q = <<>>
    /\ workQueue.closed
    /\ wpc' = [wpc EXCEPT ![w] = "exited"]
    /\ cl' = [cl EXCEPT ![w] = Closed]
    /\ wire' = [wire EXCEPT ![w].why = "closed"]
    /\ UNCHANGED <<t, workQueue, out, pw, state, peer, call>>

\* a channel left open
closeOmitted(ch) == ch

\* close(ch)
close(ch) == [ch EXCEPT !.closed = TRUE]

\* Download, past its loop: close(workQueue) and return buf, nil
CloseQueue ==
    /\ ~out.returned
    /\ out.donePieces >= NumPieces
    /\ workQueue' = close(workQueue)
    /\ out' = [out EXCEPT !.returned = TRUE]
    /\ UNCHANGED <<t, wpc, cl, pw, state, peer, wire, call>>

-----------------------------------------------------------------------------
(* Download up to the start of its workers, and the specifications.        *)

\* the digest of piece index of the file, the piece size bytes long
FileHash(index, size) == sha1(BRun(size, FileByte(index)))

\* a digest no piece of the file has
WrongHash == sha1(BRun(1, JunkByte))

\* a Torrent of P pieces of k blocks, the last piece half a block shorter when
\* short, the hash of piece 0 wrong when wrong, with n peers
Torrent(P, k, short, wrong, n) ==
    LET PL == k * MaxBlockSize
        L  == P * PL - (IF short THEN MaxBlockSize \div 2 ELSE 0)
    IN  [PieceHashes |-> [i \in 1..P |->
                            IF wrong /\ i = 1 THEN WrongHash
                            ELSE FileHash(i - 1, Min(PL, L - (i - 1) * PL))],
         PieceLength |-> PL,
         Length      |-> L,
         InfoHash    |-> 1,
         Peers       |-> [i \in 1..n |-> i]]

\* the peers a worker may meet: responsive or not, advertising any pieces
Profiles(P, R) ==
    {[responsive |-> r, discards |-> FALSE, bf |-> BitfieldOf(S)] :
        r \in R, S \in SUBSET (0..(P - 1))}

\* the order of the peers in t.Peers plays no part: one list per multiset
Rank(profile) == BAt(profile.bf, 0) + (IF profile.responsive THEN 256 ELSE 0)

PeerLists(n, P, R) ==
    {ps \in [1..n -> Profiles(P, R)] :
        \A i \in 1..n, j \in 1..n : i < j => Rank(ps[i]) <= Rank(ps[j])}

\* a work queue one slot short
queueCapacityShort == NumPieces - 1

\* the capacity of make(chan *pieceWork, len(t.PieceHashes))
queueCapacity == NumPieces

\* Download: the queue filled with one pieceWork per piece, the workers started
Start(torrent, profiles) ==
    /\ t = torrent
    /\ peer = [w \in DOMAIN profiles |->
                 [bf |-> profiles[w].bf, responsive |-> profiles[w].responsive,
                  discards |-> profiles[w].discards,
                  reply |-> None, greeted |-> <<>>]]
    /\ workQueue = [q |-> [i \in 1..NumPieces |->
                             [index |-> i - 1, hash |-> t.PieceHashes[i],
                              length |-> calculatePieceSize(i - 1)]],
                    cap |-> queueCapacity, closed |-> FALSE]
    /\ out = [buf |-> BZeros(t.Length), donePieces |-> 0, returned |-> FALSE,
              writes |-> <<>>]
    /\ wpc = [w \in Workers |-> "start"]
    /\ cl = [w \in Workers |-> None]
    /\ pw = [w \in Workers |-> None]
    /\ state = [w \in Workers |-> None]
    /\ wire = [w \in Workers |-> NoWire]
    /\ call = None

Init ==
    \E P \in 1..MaxPieces, k \in 1..MaxBlocks, short \in BOOLEAN, wrong \in BOOLEAN :
        \E profiles \in PeerLists(MaxPeers, P, {FALSE}) :
            Start(Torrent(P, k, short, wrong, MaxPeers), profiles)

Next ==
    \/ \E w \in Workers : WorkerStart(w)
    \/ \E w \in Workers : Dequeue(w)
    \/ \E w \in Workers : Requeue(w)
    \/ \E w \in Workers : SendRequest(w)
    \/ \E w \in Workers : ReadMessage(w)
    \/ \E w \in Workers : FinishPiece(w)
    \/ \E w \in Workers : Publish(w)
    \/ \E w \in Workers : WorkerExit(w)
    \/ CloseQueue

Spec == Init /\ [][Next]_vars

\* one peer and one piece of AttemptBlocks blocks
AttemptInit ==
    \E short \in BOOLEAN, profiles \in PeerLists(1, 1, BOOLEAN) :
        Start(Torrent(1, AttemptBlocks, short, FALSE, 1), profiles)

AttemptSpec == AttemptInit /\ [][Next]_vars

\* one piece of AttemptBlocks blocks and one peer, which discards the Requests
\* it has not answered when it chokes
ChokeInit ==
    \E short \in BOOLEAN, S \in SUBSET {0} :
        Start(Torrent(1, AttemptBlocks, short, FALSE, 1),
              <<[responsive |-> FALSE, discards |-> TRUE, bf |-> BitfieldOf(S)]>>)

ChokeSpec == ChokeInit /\ [][Next]_vars

\* manifests with the right hashes, each peer responsive or not
FairInit ==
    \E P \in 1..MaxPieces, k \in 1..MaxBlocks, short \in BOOLEAN :
        \E profiles \in PeerLists(MaxPeers, P, BOOLEAN) :
            Start(Torrent(P, k, short, FALSE, MaxPeers), profiles)

\* the 30-second deadline of an attempt ends a read on a peer that may not
\* answer
ReadFail(w) == ~peer[w].responsive /\ ReadMessageOn(w, ReadError)

\* the answer of a responsive peer is read
ReadAnswer(w) == peer[w].responsive /\ ReadMessage(w)

\* Every goroutine that can run does run; a receiver waiting on the work
\* queue is served when an item arrives (Go hands a sent item to the
\* longest-waiting receiver), which is strong fairness of Dequeue; an attempt
\* on a peer that may not answer is ended by the deadline, and the answer of
\* a responsive peer arrives and is read.
Fairness ==
    /\ WF_vars(CloseQueue)
    /\ \A w \in 1..MaxPeers :
          /\ WF_vars(WorkerStart(w))
          /\ SF_vars(Dequeue(w))
          /\ WF_vars(Requeue(w))
          /\ WF_vars(SendRequest(w))
          /\ WF_vars(ReadAnswer(w))
          /\ WF_vars(ReadFail(w))
          /\ WF_vars(FinishPiece(w))
          /\ WF_vars(Publish(w))
          /\ WF_vars(WorkerExit(w))

FairSpec == FairInit /\ [][Next]_vars /\ Fairness

\* both families of manifests
WideInit == Init \/ AttemptInit

WideSpec == WideInit /\ [][Next]_vars

-----------------------------------------------------------------------------
(* The codec on its own: one call of ParsePiece on a drawn message and     *)
(* buffer.                                                                 *)

\* the sequences over S of at most n elements
SeqsUpTo(S, n) == UNION {[1..k -> S] : k \in 0..n}

\* the messages and buffers ParsePiece is called on: a Piece or a Have id, a
\* payload cut short of its 8-byte header or whole, either index, a begin
\* offset inside, at the end of and past the buffer, data shorter and longer
\* than the buffer
ParseCalls ==
    {[msg |-> Message(id, BTake(BCat(PutUint32(index), BCat(PutUint32(begin), BLit(data))), cut)),
      expectedIndex |-> expected,
      buf |-> BLit(buf),
      done |-> FALSE,
      res |-> None] :
        id \in {MsgPiece, MsgHave},
        cut \in {0, 7, 8 + MaxBufLen + 1},
        index \in {0, 1},
        expected \in {0, 1},
        begin \in 0..(MaxBufLen + 1),
        data \in {[i \in 1..k |-> 7] : k \in 0..(MaxBufLen + 1)} \cup {<<7, 0>>, <<0, 7>>},
        buf \in SeqsUpTo({0, 7}, MaxBufLen)}

ParseInit ==
    /\ call \in ParseCalls
    /\ t = None /\ workQueue = None /\ out = None /\ wpc = None /\ cl = None
    /\ pw = None /\ state = None /\ peer = None /\ wire = None

\* n, err := msg.ParsePiece(expectedIndex, buf)
CallParsePiece ==
    /\ call # None
    /\ ~call.done
    /\ call' = [call EXCEPT !.done = TRUE,
                            !.res = ParsePiece(call.msg, call.expectedIndex, call.buf)]
    /\ UNCHANGED swarmVars

ParseNext == CallParsePiece

ParseSpec == ParseInit /\ [][ParseNext]_vars

-----------------------------------------------------------------------------
(* The framing on its own: a drawn message is serialized onto a stream     *)
(* that goes on with other bytes, and read back.                           *)

\* the messages framed: the keep-alive, and every id with an empty payload,
\* short payloads and a full block; the stream goes on with nothing, with
\* bytes of a next frame, or with a stray byte
FrameCalls ==
    {[msg |-> m, tail |-> BLit(tail), done |-> FALSE, bytes |-> None, res |-> None] :
        m \in {NilMsg}
              \cup {Message(id, BLit(p)) : id \in MsgChoke..MsgCancel,
                                          p \in SeqsUpTo({0, 7}, MaxBufLen)}
              \cup {Message(id, BRun(MaxBlockSize + 8, 7)) : id \in MsgChoke..MsgCancel},
        tail \in {<<>>, <<0>>, <<0, 0, 0, 0>>, <<0, 0, 0, 1, 2>>, <<7>>}}

FrameInit ==
    /\ call \in FrameCalls
    /\ t = None /\ workQueue = None /\ out = None /\ wpc = None /\ cl = None
    /\ pw = None /\ state = None /\ peer = None /\ wire = None

\* conn.Write(msg.Serialize()) on one side, message.Read(conn) on the other
CallSerializeRead ==
    /\ call # None
    /\ ~call.done
    /\ call' = [call EXCEPT !.done = TRUE,
                            !.bytes = Serialize(call.msg),
                            !.res = Read(BCat(Serialize(call.msg), call.tail))]
    /\ UNCHANGED swarmVars

FrameNext == CallSerializeRead

FrameSpec == FrameInit /\ [][FrameNext]_vars

-----------------------------------------------------------------------------
(* The dispatch on its own: one call of readMessage on a drawn progress    *)
(* record, session and inbound message.                                    *)

\* the messages read: the keep-alive; every id with no payload, with the four
\* bytes of a Have and with the bytes of a Piece; Haves for bits set, clear
\* and past the bitfield; a Have cut short; Pieces that fit and that do not
DispatchMessages ==
    {NilMsg}
    \cup {Message(id, p) : id \in MsgChoke..MsgCancel,
                           p \in {<<>>, PutUint32(1), BRun(3, 0),
                                  BCat(PutUint32(0), BCat(PutUint32(1), BRun(2, 7))),
                                  BCat(PutUint32(0), BCat(PutUint32(MaxBufLen), BRun(2, 7)))}}
    \cup {NewHave(i) : i \in 0..9}

\* the progress records and sessions readMessage is called on
DispatchCalls ==
    {[st |-> [index |-> 0, buf |-> BLit(buf), downloaded |-> d,
              requested |-> r, backlog |-> r - d],
      c |-> [Choked |-> ch, Bitfield |-> bf],
      in |-> [err |-> FALSE, msg |-> m],
      done |-> FALSE, res |-> None] :
        buf \in {[i \in 1..MaxBufLen |-> 0], [i \in 1..MaxBufLen |-> 7]},
        d \in 0..1, r \in 1..2,
        ch \in BOOLEAN,
        bf \in {<<>>, BRun(1, 0), BRun(1, 2 ^ 7 + 1), BRun(1, 2 ^ 8 - 1)},
        m \in DispatchMessages}

DispatchInit ==
    /\ call \in DispatchCalls
    /\ t = None /\ workQueue = None /\ out = None /\ wpc = None /\ cl = None
    /\ pw = None /\ state = None /\ peer = None /\ wire = None

\* err := state.readMessage()
CallReadMessage ==
    /\ call # None
    /\ ~call.done
    /\ call' = [call EXCEPT !.done = TRUE,
                            !.res = readMessage(call.st, call.c, call.in)]
    /\ UNCHANGED swarmVars

DispatchNext == CallReadMessage

DispatchSpec == DispatchInit /\ [][DispatchNext]_vars

-----------------------------------------------------------------------------
(* Claims.                                                                 *)

\* the fields of a Piece payload, read off its plain bytes
PlainUint32(p, at) ==
    p[at + 1] * 16777216 + p[at + 2] * 65536 + p[at + 3] * 256 + p[at + 4]

\* C10, for one finished call
ParsePieceAsSpecified(c) ==
    LET p    == BExpand(c.msg.Payload)
        b    == BExpand(c.buf)
        long == Len(p) >= 8
        dl   == Len(p) - 8
        fails ==
            \/ c.msg.ID # 7
            \/ ~long
            \/ PlainUint32(p, 0) # c.expectedIndex
            \/ PlainUint32(p, 4) >= Len(b)
            \/ PlainUint32(p, 4) + dl > Len(b)
    IN  /\ c.res.err <=> fails
        /\ fails => c.res.buf = c.buf /\ c.res.n = 0
        /\ ~fails =>
              /\ c.res.n = dl
              /\ BExpand(c.res.buf) =
                    [j \in 1..Len(b) |->
                        IF PlainUint32(p, 4) < j /\ j <= PlainUint32(p, 4) + dl
                        THEN p[8 + j - PlainUint32(p, 4)]
                        ELSE b[j]]

\* C10: ParsePiece(expected_index, buf) fails exactly when the id is not 7, the
\* payload is shorter than 8 bytes, the embedded index is not the expected one,
\* begin >= len(buf), or begin + data_len > len(buf); a failure leaves buf as it
\* was; otherwise it returns data_len, buf[begin .. begin+data_len) holds the
\* data and every other byte of buf is as it was.
C10_ParsePiece == call # None /\ call.done => ParsePieceAsSpecified(call)

\* a Piece was accepted that overwrote bytes in the middle of the buffer
C10_Witness ==
    /\ call # None /\ call.done /\ ~call.res.err
    /\ call.res.n = 1
    /\ BLen(call.buf) = 3
    /\ call.res.buf # call.buf
    /\ BAt(call.res.buf, 0) = BAt(call.buf, 0)

-----------------------------------------------------------------------------
(* Claims about the swarm.                                                 *)

\* every piece is advertised by a responsive peer
EveryPieceAdvertised ==
    \A i \in Pieces : \E w \in Workers : peer[w].responsive /\ HasPiece(peer[w].bf, i)

\* C1: when every piece is advertised by a responsive peer, under fair
\* scheduling Download eventually returns, with a buffer of total_length bytes.
C1_Completeness ==
    EveryPieceAdvertised => <>(out.returned /\ BLen(out.buf) = t.Length)

\* the byte range of piece i, from the manifest
RangeBegin(i) == i * t.PieceLength

RangeEnd(i) == Min(i * t.PieceLength + t.PieceLength, t.Length)

\* C2: every result a worker offers on the result channel hashes to the
\* manifest's hash of its index, whatever the peer sent; every range Download
\* has copied a result into, and at its return every piece range of the
\* buffer, hashes to the piece's hash.
C2_Integrity ==
    /\ \A w \in Workers :
          wpc[w] = "publish" => sha1(state[w].buf) = t.PieceHashes[pw[w].index + 1]
    /\ \A k \in 1..Len(out.writes) :
          sha1(BSlice(out.buf, out.writes[k].begin, out.writes[k].end))
              = t.PieceHashes[out.writes[k].index + 1]
    /\ out.returned =>
          \A i \in Pieces :
              sha1(BSlice(out.buf, RangeBegin(i), RangeEnd(i))) = t.PieceHashes[i + 1]

\* a verified piece of several blocks is on offer
C2_Witness ==
    \E w \in Workers : wpc[w] = "publish" /\ BLen(state[w].buf) > MaxBlockSize

\* C3: the buffer is total_length bytes; each copy Download makes goes to the
\* range of its piece, no two copies go to the same or to overlapping ranges,
\* and at the return the P results consumed carry the P distinct indices.
C3_RegionsOnce ==
    /\ BLen(out.buf) = t.Length
    /\ \A k \in 1..Len(out.writes) :
          /\ out.writes[k].index \in Pieces
          /\ out.writes[k].begin = RangeBegin(out.writes[k].index)
          /\ out.writes[k].end = RangeEnd(out.writes[k].index)
    /\ \A j \in 1..Len(out.writes), k \in 1..Len(out.writes) :
          j # k => /\ out.writes[j].index # out.writes[k].index
                   /\ \/ out.writes[j].end <= out.writes[k].begin
                      \/ out.writes[k].end <= out.writes[j].begin
    /\ out.returned =>
          /\ Len(out.writes) = NumPieces
          /\ {out.writes[k].index : k \in 1..Len(out.writes)} = Pieces

\* Download has returned a file of two pieces
C3_Witness == out.returned /\ Len(out.writes) = 2

\* where piece i is
InQueue(i) == Cardinality({k \in 1..Len(workQueue.q) : workQueue.q[k].index = i})

Owners(i) == Cardinality({w \in Workers : pw[w] # None /\ pw[w].index = i})

Finalized(i) == Cardinality({k \in 1..Len(out.writes) : out.writes[k].index = i})

\* C4: each pieceWork is in exactly one place: in the queue, held by one
\* worker, or assembled; a worker that is not between a dequeue and its
\* requeue or publication (so also one that gave up) holds none.
C4_OnePlace ==
    /\ \A i \in Pieces : InQueue(i) + Owners(i) + Finalized(i) = 1
    /\ \A w \in Workers : wpc[w] \in {"start", "idle", "exited"} <=> pw[w] = None
    /\ \A w \in Workers : wpc[w] # "panic"

\* one worker gave up on an error, one piece is assembled, the other is held
C4_Witness ==
    \E w \in Workers, v \in Workers :
        /\ wire[w].why = "error" /\ wpc[w] = "exited"
        /\ wpc[v] = "download"
        /\ Len(out.writes) = 1

\* the items of the queue
Queued == {workQueue.q[k] : k \in 1..Len(workQueue.q)}

\* C5: a worker whose piece download fails keeps its piece, finds room in the
\* open queue, and its next step puts the piece back and ends the worker.
C5_Requeue ==
    /\ [](\A w \in Workers :
            wpc[w] = "requeueExit" =>
                /\ pw[w] # None
                /\ ~workQueue.closed
                /\ Len(workQueue.q) < workQueue.cap)
    /\ [][\A w \in Workers :
            /\ wpc[w] = "download" /\ wpc'[w] = "requeueExit" => pw'[w] = pw[w]
            /\ wpc[w] = "requeueExit" /\ wpc'[w] # "requeueExit" =>
                  /\ wpc'[w] = "exited"
                  /\ workQueue'.q = Append(workQueue.q, pw[w])
                  /\ out' = out]_vars

\* a worker gave up on an error and a piece is back in the queue
C5_Witness ==
    \E w \in Workers :
        /\ wire[w].why = "error" /\ wpc[w] = "exited"
        /\ workQueue.q # <<>>
        /\ Len(out.writes) = 0

\* C6 as claimed: after a failed Have write the worker offers no result
C6_HaveErrorRequeues ==
    \A w \in Workers : wire[w].have = "err" => wpc[w] # "publish"

\* C6, amended: a failed Have write changes nothing: whenever a download ends
\* with a piece that passes the integrity check the worker offers its result,
\* the piece is not put back, and the worker's next step hands the result to
\* Download and goes on with the queue.
C6_HaveErrorIgnored ==
    [][\A w \in Workers :
        /\ ( /\ wpc[w] = "download"
             /\ state[w].downloaded >= pw[w].length
             /\ checkIntegrity(pw[w], state[w].buf)
             /\ wpc'[w] # "download" )
           => /\ wpc'[w] = "publish"
              /\ wire'[w].have \in {"ok", "err"}
              /\ pw'[w] = pw[w]
              /\ workQueue' = workQueue
        /\ ( wpc[w] = "publish" /\ wpc'[w] # "publish" )
           => /\ wpc'[w] = "idle"
              /\ workQueue' = workQueue
              /\ Len(out'.writes) = Len(out.writes) + 1
              /\ out'.writes[Len(out'.writes)].index = pw[w].index]_vars

\* a worker offers a result although its Have write failed
C6_Witness ==
    \E w \in Workers : wpc[w] = "publish" /\ wire[w].have = "err"

-----------------------------------------------------------------------------
(* Claims about one download attempt.                                      *)

\* C7: during a piece download at most 5 Requests are unanswered, and no
\* Request was written while the session was choked.
C7_BacklogCap ==
    \A w \in Workers :
        wpc[w] = "download" =>
            /\ Cardinality(wire[w].open) <= 5
            /\ \A k \in 1..Len(wire[w].sent) : ~wire[w].sent[k].choked

\* C8: whatever the peer sends, downloaded <= requested <= length and
\* 0 <= backlog <= 5 throughout a download attempt.
C8_Progress ==
    \A w \in Workers :
        wpc[w] = "download" =>
            /\ state[w].downloaded <= state[w].requested
            /\ state[w].requested <= pw[w].length
            /\ 0 <= state[w].backlog
            /\ state[w].backlog <= 5

\* the three fields of a Request payload, read off its bytes
RequestField(msg, k) == PlainUint32(BExpand(msg.Payload), 4 * k)

\* C9: the k-th Request of an attempt is a Request message of 12 payload bytes
\* for the piece's own index, begins at (k-1)*16384 and asks for
\* min(16384, length - begin) bytes: between 1 and 16384, never past the
\* piece's end.
C9_Requests ==
    \A w \in Workers :
        wpc[w] = "download" =>
            \A k \in 1..Len(wire[w].sent) :
                LET msg == wire[w].sent[k].msg
                IN  /\ msg.ID = 6
                    /\ BLen(msg.Payload) = 12
                    /\ RequestField(msg, 0) = pw[w].index
                    /\ RequestField(msg, 1) = (k - 1) * 16384
                    /\ RequestField(msg, 2) = Min(16384, pw[w].length - (k - 1) * 16384)
                    /\ RequestField(msg, 2) >= 1
                    /\ RequestField(msg, 2) <= 16384
                    /\ RequestField(msg, 1) + RequestField(msg, 2) <= pw[w].length

\* every block of a piece has been asked for and the last Request is shorter
C9_Witness ==
    \E w \in Workers :
        /\ wpc[w] = "download"
        /\ Len(wire[w].sent) > 5
        /\ state[w].requested = pw[w].length
        /\ RequestField(wire[w].sent[Len(wire[w].sent)].msg, 2) < 16384

-----------------------------------------------------------------------------
(* Claims about the framing.                                               *)

\* the frame of a message, written out byte by byte: the big-endian count of
\* the id and the payload, the id, the payload
PlainFrame(m) ==
    IF m = NilMsg THEN <<0, 0, 0, 0>>
    ELSE LET p == BExpand(m.Payload)
             n == Len(p) + 1
         IN  <<n \div 16777216, (n \div 65536) % 256, (n \div 256) % 256, n % 256,
               m.ID>> \o p

\* C11: Read applied to the bytes of Serialize(M) returns M without an error
\* and leaves the stream exactly after those bytes; the serialized keep-alive
\* is the four bytes 00 00 00 00 and reads back as nil.
C11_RoundTrip ==
    call # None /\ call.done =>
        /\ ~call.res.err
        /\ call.res.msg = call.msg
        /\ call.res.rest = call.tail
        /\ BLen(call.bytes) <= 16 => BExpand(call.bytes) = PlainFrame(call.msg)
        /\ call.msg = NilMsg =>
              /\ BExpand(call.bytes) = <<0, 0, 0, 0>>
              /\ call.res.msg = NilMsg

\* a message with a payload came back whole from a stream that goes on
C11_Witness ==
    /\ call # None /\ call.done
    /\ call.msg # NilMsg
    /\ call.msg.ID = MsgPiece
    /\ BLen(call.msg.Payload) = 3
    /\ call.res.msg = call.msg
    /\ BLen(call.res.rest) = 5


-----------------------------------------------------------------------------
(* Claims about opening a session.                                         *)

\* the answers of a peer with which no session can be opened, as the claim
\* lists them
OpenFails(reply) ==
    \/ ~reply.dial
    \/ reply.hs.err
    \/ reply.hs.lengthPstr = 0
    \/ reply.hs.InfoHash # t.InfoHash
    \/ reply.first.err
    \/ reply.first.msg = NilMsg
    \/ reply.first.msg.ID # 5

\* C12: when the dial fails, the handshake fails (pstrlen 0 and a foreign
\* info hash included) or the first message is not a Bitfield (a keep-alive
\* included), the conn, if one was made, is closed, no session exists, the
\* worker has ended having written nothing and holding nothing, and the step
\* in which it failed left the work queue and Download's frame as they were.
C12_OpenFailure ==
    /\ [](\A w \in Workers :
            peer[w].reply # None /\ OpenFails(peer[w].reply) =>
                /\ wpc[w] = "exited"
                /\ cl[w] = IF peer[w].reply.dial THEN Closed ELSE None
                /\ peer[w].greeted = <<>>
                /\ wire[w].sent = <<>>
                /\ pw[w] = None
                /\ state[w] = None)
    /\ [][\A w \in Workers :
            peer[w].reply = None /\ peer'[w].reply # None /\ OpenFails(peer'[w].reply) =>
                /\ workQueue' = workQueue
                /\ out' = out]_vars

\* a worker ended on a first message that is not a Bitfield, its conn closed,
\* while the queue still holds every piece
C12_Witness ==
    \E w \in Workers :
        /\ peer[w].reply # None
        /\ peer[w].reply.first.msg # NilMsg
        /\ peer[w].reply.first.msg.ID = MsgUnchoke
        /\ wpc[w] = "exited"
        /\ cl[w] = Closed
        /\ Len(workQueue.q) = NumPieces


-----------------------------------------------------------------------------
(* Claims about the order of arrival.                                      *)

RECURSIVE PiecesInOrder(_)
\* the pieces the manifest's hashes stand for, the first n of them, one after
\* the other in index order
PiecesInOrder(n) ==
    IF n = 0 THEN <<>>
    ELSE BCat(PiecesInOrder(n - 1), t.PieceHashes[n].sha1)

\* C13: whatever the order in which the workers publish, the buffer Download
\* returns is the pieces in index order, piece i at offset i*piece_length: a
\* value of the manifest alone, the same for every interleaving.
C13_OrderIndependence ==
    out.returned =>
        /\ out.buf = PiecesInOrder(NumPieces)
        /\ \A k \in 1..Len(out.writes) :
              out.writes[k].begin = out.writes[k].index * t.PieceLength

\* Download has returned after piece 1 arrived before piece 0
C13_Witness ==
    /\ out.returned
    /\ Len(out.writes) = 2
    /\ out.writes[1].index = 1
    /\ out.writes[2].index = 0


-----------------------------------------------------------------------------
(* Claims about a piece that fails the hash check.                         *)

\* some piece's hash in the manifest is the hash of no piece a peer can send
Unmatchable == \E i \in Pieces : t.PieceHashes[i + 1] = WrongHash

\* C14: a fully downloaded piece that fails the hash check is offered to
\* nobody and no Have is written for it; the worker keeps the piece, puts it
\* back on the queue and goes on receiving from the queue with its session as
\* it was; and with a hash in the manifest that nothing matches, Download has
\* never returned.
C14_IntegrityFailure ==
    /\ [](Unmatchable => ~out.returned)
    /\ [][\A w \in Workers :
            /\ ( /\ wpc[w] = "download"
                 /\ state[w].downloaded >= pw[w].length
                 /\ sha1(state[w].buf) # pw[w].hash
                 /\ wpc'[w] # "download" )
               => /\ wpc'[w] = "requeue"
                  /\ wire'[w].have = "none"
                  /\ wire'[w].why = "integrity"
                  /\ pw'[w] = pw[w]
                  /\ cl'[w] = cl[w]
                  /\ workQueue' = workQueue
                  /\ out' = out
            /\ ( wpc[w] = "requeue" /\ wire[w].why = "integrity" /\ wpc'[w] # "requeue" )
               => /\ wpc'[w] = "idle"
                  /\ workQueue'.q = Append(workQueue.q, pw[w])
                  /\ cl'[w] = cl[w]
                  /\ cl'[w] # Closed
                  /\ out' = out]_vars

\* a piece failed the hash check at a worker that is about to put it back,
\* no Have written, nothing assembled
C14_Witness ==
    \E w \in Workers :
        /\ wpc[w] = "requeue"
        /\ wire[w].why = "integrity"
        /\ wire[w].have = "none"
        /\ Len(out.writes) = 0


-----------------------------------------------------------------------------
(* Claims about a peer that lacks a piece.                                 *)

\* bit i of a bitfield payload, the most significant bit of byte 0 being bit
\* 0, read off the plain bytes
Advertised(bf, i) ==
    /\ i \div 8 < BLen(bf)
    /\ (BExpand(bf)[i \div 8 + 1] \div 2 ^ (7 - (i % 8))) % 2 = 1

\* C15: a worker that receives from the queue a piece its peer's bitfield, as
\* it then is, does not advertise starts no download and puts the piece back,
\* its session kept; a download is only ever under way, and Requests are only
\* ever written, for a piece that was advertised when it was received and so
\* still is; a peer whose bitfield advertises nothing is never written a
\* Request.
C15_PeerWithoutPiece ==
    /\ [](\A w \in Workers :
            /\ wpc[w] \in {"download", "publish"} =>
                  Advertised(cl[w].Bitfield, pw[w].index)
            /\ wire[w].sent # <<>> =>
                  /\ wpc[w] = "download"
                  /\ \A k \in 1..Len(wire[w].sent) :
                        RequestField(wire[w].sent[k].msg, 0) = pw[w].index
            /\ (\A i \in 0..7 : ~Advertised(peer[w].bf, i)) => wire[w].sent = <<>>)
    /\ [][\A w \in Workers :
            /\ ( wpc[w] = "idle" /\ pw'[w] # None )
               => IF Advertised(cl[w].Bitfield, pw'[w].index)
                  THEN wpc'[w] = "download"
                  ELSE /\ wpc'[w] = "requeue"
                       /\ state'[w] = None
                       /\ wire'[w].sent = <<>>
            /\ ( wpc[w] = "requeue" /\ wire[w].why # "integrity" /\ wpc'[w] # "requeue" )
               => /\ wpc'[w] = "idle"
                  /\ workQueue'.q = Append(workQueue.q, pw[w])
                  /\ cl'[w] = cl[w]
                  /\ wire'[w].sent = <<>>]_vars

\* a worker holds a piece its peer does not advertise and is about to put it
\* back
C15_Witness ==
    \E w \in Workers :
        /\ wpc[w] = "requeue"
        /\ wire[w].why # "integrity"
        /\ ~Advertised(cl[w].Bitfield, pw[w].index)


-----------------------------------------------------------------------------
(* Claims about the scheduler when workers fail.                           *)

\* piece i has been copied into Download's buffer
Assembled(i) == \E k \in 1..Len(out.writes) : out.writes[k].index = i

\* worker w has a session and has not ended
Living(w) == wpc[w] \notin {"start", "exited", "panic"}

\* no living worker's peer advertises piece i
Unavailable(i) == \A w \in Workers : Living(w) => ~Advertised(cl[w].Bitfield, i)

\* every worker has opened its session or failed to, and some piece that is
\* not yet assembled is unavailable
SomeUnavailable ==
    /\ \A w \in Workers : wpc[w] # "start"
    /\ \E i \in Pieces : ~Assembled(i) /\ Unavailable(i)

\* every worker has opened its session or failed to, pieces are left to
\* assemble and every one of them is unavailable
AllUnavailable ==
    /\ \A w \in Workers : wpc[w] # "start"
    /\ \E i \in Pieces : ~Assembled(i)
    /\ \A i \in Pieces : ~Assembled(i) => Unavailable(i)

\* C16 as claimed: once some piece that is not yet assembled is unavailable
\* from every living worker, Download never returns
C16_SomeUnavailableNeverReturns == [](SomeUnavailable => [](~out.returned))

\* C16, amended: Download returns only with P results received and the whole
\* buffer assembled; once every piece that is not yet assembled is unavailable
\* from every living worker this stays so, no bitfield changes and nothing
\* more is assembled, so Download never returns; the living workers receive
\* and put back pieces again and again, and with no living worker nothing
\* happens at all.
C16_NeverAborts ==
    /\ [](out.returned =>
            /\ out.donePieces = NumPieces
            /\ Len(out.writes) = NumPieces
            /\ \A i \in Pieces : Assembled(i)
            /\ BLen(out.buf) = t.Length)
    /\ [](AllUnavailable =>
            /\ ~out.returned
            /\ \A w \in Workers : wpc[w] \in {"idle", "requeue", "exited"})
    /\ [][AllUnavailable =>
            /\ AllUnavailable'
            /\ out' = out
            /\ cl' = cl
            /\ \E w \in Workers : Living(w)]_vars
    /\ [](AllUnavailable /\ (\E w \in Workers : Living(w)) =>
            []<>(\E w \in Workers : wpc[w] = "requeue"))

\* one worker lives, its peer advertising none of the pieces left, while
\* another has ended
C16_Witness ==
    /\ AllUnavailable
    /\ \E w \in Workers : wpc[w] = "requeue"
    /\ \E w \in Workers : wpc[w] = "exited"


-----------------------------------------------------------------------------
(* Claims about termination.                                               *)

\* C17: the work queue is closed only with all P pieces assembled; from then
\* on no worker holds a piece, offers a result or waits to put one back, and
\* under fair scheduling every worker ends: one that lives finds the queue
\* closed and empty, leaves its loop and closes its conn.
C17_OrderlyTermination ==
    /\ [](workQueue.closed =>
            /\ out.returned
            /\ out.donePieces = NumPieces
            /\ \A i \in Pieces : Assembled(i)
            /\ workQueue.q = <<>>
            /\ \A w \in Workers : wpc[w] \in {"start", "idle", "exited"} /\ pw[w] = None)
    /\ [](out.returned => workQueue.closed)
    /\ (workQueue.closed ~>
            \A w \in Workers :
                /\ wpc[w] = "exited"
                /\ cl[w] \in {Closed, None}
                /\ cl[w] = None => peer[w].reply # None /\ ~peer[w].reply.dial)

\* Download has returned and both workers have left their loops on the closed
\* queue, their conns closed
C17_Witness ==
    /\ out.returned
    /\ workQueue.closed
    /\ Cardinality(Workers) = 2
    /\ \A w \in Workers :
          wpc[w] = "exited" /\ wire[w].why = "closed" /\ cl[w] = Closed


-----------------------------------------------------------------------------
(* Claims about the dispatch of inbound messages.                          *)

\* the bits of a bitfield that are set
BitsSet(bf) == {i \in 0..(8 * BLen(bf) - 1) : Advertised(bf, i)}

\* C18, for one finished call of readMessage on a message m
DispatchAsSpecified(c) ==
    LET m      == c.in.msg
        before == c.st
        after  == c.res.state
        sameProgress == after = before
        sameChoked   == c.res.cl.Choked = c.c.Choked
        sameBits     == c.res.cl.Bitfield = c.c.Bitfield
    IN  /\ (m = NilMsg \/ m.ID \in {2, 3, 5, 6, 8}) =>
              sameProgress /\ sameChoked /\ sameBits /\ ~c.res.err
        /\ (m # NilMsg /\ m.ID = 0) =>
              sameProgress /\ sameBits /\ c.res.cl.Choked /\ ~c.res.err
        /\ (m # NilMsg /\ m.ID = 1) =>
              sameProgress /\ sameBits /\ ~c.res.cl.Choked /\ ~c.res.err
        /\ (m # NilMsg /\ m.ID = 4) =>
              /\ sameProgress /\ sameChoked
              /\ BLen(c.res.cl.Bitfield) = BLen(c.c.Bitfield)
              /\ BLen(m.Payload) = 4 =>
                    /\ ~c.res.err
                    /\ BitsSet(c.res.cl.Bitfield) =
                          BitsSet(c.c.Bitfield)
                          \cup ({PlainUint32(BExpand(m.Payload), 0)}
                                \cap (0..(8 * BLen(c.c.Bitfield) - 1)))
              /\ BLen(m.Payload) # 4 => sameBits /\ c.res.err
        /\ (m # NilMsg /\ m.ID = 7) => sameChoked /\ sameBits
        /\ (m = NilMsg \/ m.ID # 7) =>
              /\ after.buf = before.buf
              /\ after.downloaded = before.downloaded
              /\ after.backlog = before.backlog
        /\ after.requested = before.requested
        /\ after.index = before.index

\* C18: in readMessage a keep-alive and a message of any id other than
\* Choke, Unchoke, Have and Piece change nothing; Choke and Unchoke change
\* only choked; a well-formed Have changes only the bitfield, where it sets
\* the one bit named (none when it lies past the end) and clears none; buf,
\* downloaded and backlog change only on a Piece; requested never changes.
C18_DispatchFrames == call # None /\ call.done => DispatchAsSpecified(call)

\* a Have set a bit of a bitfield that had other bits set, the progress
\* record as it was
C18_Witness ==
    /\ call # None /\ call.done
    /\ call.in.msg # NilMsg /\ call.in.msg.ID = MsgHave
    /\ ~call.res.err
    /\ BitsSet(call.c.Bitfield) = {0, 7}
    /\ BitsSet(call.res.cl.Bitfield) = {0, 3, 7}
    /\ call.res.state = call.st


-----------------------------------------------------------------------------
(* Claims about sends on the work queue.                                   *)

\* C19: no worker ever sends on the closed work queue (no panic); a worker
\* about to put a piece back finds the queue open with a free slot; the queue
\* never holds more than its capacity P; and once Download has received P
\* results no worker owns a pieceWork.
C19_NoSendOnClosed ==
    /\ \A w \in Workers : wpc[w] # "panic"
    /\ workQueue.cap = NumPieces
    /\ Len(workQueue.q) <= workQueue.cap
    /\ \A w \in Workers :
          wpc[w] \in {"requeue", "requeueExit"} =>
              /\ ~workQueue.closed
              /\ Len(workQueue.q) < workQueue.cap
    /\ out.donePieces = NumPieces =>
          \A w \in Workers : pw[w] = None /\ wpc[w] \in {"start", "idle", "exited"}

\* both workers are about to put a piece back, one after an integrity
\* failure, on the empty queue of a two-piece manifest
C19_Witness ==
    /\ NumPieces = 2
    /\ workQueue.q = <<>>
    /\ \E w \in Workers : wpc[w] = "requeue" /\ wire[w].why = "integrity"
    /\ \A w \in Workers : wpc[w] \in {"requeue", "requeueExit"}


-----------------------------------------------------------------------------
(* Claims about Requests outstanding at a Choke.                           *)

\* the begin offsets of the Requests written so far in a worker's attempt
SentBegins(w) ==
    [k \in 1..Len(wire[w].sent) |-> RequestField(wire[w].sent[k].msg, 1)]

\* C20: within one attempt requested only grows and no block offset is asked
\* for twice; a Choke or an Unchoke leaves requested, downloaded and backlog
\* as they were and writes nothing; a Request is written only while backlog
\* is under 5 and requested under the piece's length. With a peer that
\* discards the unanswered Requests when it chokes: they stay counted in
\* backlog, no Request is written any more in that attempt, the attempt never
\* gets all its bytes, and it ends only by an error, which leaves the worker
\* about to put the piece back and exit.
C20_ChokedRequestsLost ==
    /\ [](\A w \in Workers :
            wpc[w] = "download" =>
                /\ \A j, k \in 1..Len(wire[w].sent) :
                      j < k => SentBegins(w)[j] < SentBegins(w)[k]
                /\ wire[w].dropped \subseteq wire[w].open
                /\ wire[w].dropped # {} =>
                      /\ state[w].backlog >= Cardinality(wire[w].dropped)
                      /\ state[w].downloaded < pw[w].length
                      /\ ~canRequest(state[w], [cl[w] EXCEPT !.Choked = FALSE], pw[w]))
    /\ [][\A w \in Workers :
            /\ ( wpc[w] = "download" /\ wpc'[w] = "download" ) =>
                  /\ state'[w].requested >= state[w].requested
                  /\ cl'[w].Choked # cl[w].Choked =>
                        /\ state'[w] = state[w]
                        /\ wire'[w].sent = wire[w].sent
                  /\ wire'[w].sent # wire[w].sent =>
                        /\ state[w].backlog < 5
                        /\ state[w].requested < pw[w].length
                        /\ wire[w].dropped = {}
            /\ ( wpc[w] = "download" /\ wire[w].dropped # {} /\ wpc'[w] # "download" ) =>
                  /\ wpc'[w] = "requeueExit"
                  /\ pw'[w] = pw[w]
                  /\ out' = out]_vars

\* the peer answered two of six Requests, choked and discarded the other
\* four, and has unchoked again: every block has been asked for, four are
\* still counted as unanswered
C20_Witness ==
    \E w \in Workers :
        /\ wpc[w] = "download"
        /\ ~cl[w].Choked
        /\ Len(wire[w].sent) = 6
        /\ Cardinality(wire[w].dropped) = 4
        /\ state[w].backlog = 4
        /\ state[w].requested = pw[w].length

=============================================================================
